---- MODULE Spec2Model ----
(***************************************************************************)
(* Model of sanx_monitor.py: a periodically invoked script that resolves   *)
(* the monthly San-X releases URL, fingerprints the page text, compares it *)
(* with the record kept in sanx_hash.json and decides whether to notify.   *)
(*                                                                         *)
(* Strings that the program builds or takes apart (period labels, URLs)    *)
(* are sequences of one-character strings, so that formatting, splitting   *)
(* and parsing are computed and not assumed.                               *)
(***************************************************************************)
EXTENDS Integers, Sequences, FiniteSets, TLC

VARIABLES today, file, last, probe

vars == <<today, file, last, probe>>

(* ------------------------------- bounds -------------------------------- *)

\* Number of calendar years, starting with 2024, that date.today() ranges over.
NumYears == 2

\* Number of distinct clock readings datetime.now() may give.
MaxTime == 2

Years == 2024 .. (2023 + NumYears)
Months == 1 .. 12
Dates == [year : Years, month : Months]
Times == 1 .. MaxTime

\* Python's None.
None == "None"

(* --------------------------- string helpers ---------------------------- *)

Digit == <<"0", "1", "2", "3", "4", "5", "6", "7", "8", "9">>

IsDigit(c) == \E i \in 1..10 : Digit[i] = c

DigitVal(c) == (CHOOSE i \in 1..10 : Digit[i] = c) - 1

\* f"{n}" for a non-negative integer: its decimal digits, no padding.
RECURSIVE Str(_)
Str(n) == IF n < 10 THEN <<Digit[n + 1]>>
          ELSE Str(n \div 10) \o <<Digit[(n % 10) + 1]>>

\* f"{n:02d}": at least two digits, padded with zeros on the left.
Fmt02d(n) == IF n < 10 THEN <<"0">> \o Str(n) ELSE Str(n)

\* int() of a sequence of digits.
RECURSIVE IntOf(_)
IntOf(s) == IF s = <<>> THEN 0
            ELSE 10 * IntOf(SubSeq(s, 1, Len(s) - 1)) + DigitVal(s[Len(s)])

\* f"{year}{month:02d}_new"
MonthStr(year, month) == Str(year) \o Fmt02d(month) \o <<"_", "n", "e", "w">>

\* f"https://shop.san-x.co.jp/feature/index/{month_str}"
FeatureUrl(month_str) == <<"https://shop.san-x.co.jp/feature/index/">> \o month_str

GeneralUrl == <<"https://shop.san-x.co.jp/category/new">>

GeneralNew == <<"g", "e", "n", "e", "r", "a", "l", "_", "n", "e", "w">>

(* ----------------------------- URL resolver ---------------------------- *)

get_current_releases_url(d) ==
    LET month_str == MonthStr(d.year, d.month)
    IN  [url |-> FeatureUrl(month_str), month_str |-> month_str]

\* The mutant of prev_period: no year rollover in January.
prev_period_norollover(d) ==
    IF d.month = 1 THEN [year |-> d.year, month |-> 12]
    ELSE [year |-> d.year, month |-> d.month - 1]

\* prev_year, prev_month of get_fallback_url.
prev_period(d) ==
    IF d.month = 1 THEN [year |-> d.year - 1, month |-> 12]
    ELSE [year |-> d.year, month |-> d.month - 1]

\* next_year, next_month of get_fallback_url.
next_period(d) ==
    IF d.month = 12 THEN [year |-> d.year + 1, month |-> 1]
    ELSE [year |-> d.year, month |-> d.month + 1]

\* The URLs a run may send a HEAD request to on date d.
Candidates(d) ==
    { get_current_releases_url(d).url,
      FeatureUrl(MonthStr(prev_period(d).year, prev_period(d).month)),
      FeatureUrl(MonthStr(next_period(d).year, next_period(d).month)) }

\* What requests.head gives: an exception, or a response with a status code.
HeadRaised == [raised |-> TRUE, status_code |-> 0]
HeadStatus(code) == [raised |-> FALSE, status_code |-> code]

\* The mutant of check_page_exists: every 2xx status counts (response.ok-like).
check_page_exists_2xx(response) ==
    IF response.raised THEN FALSE
    ELSE response.status_code >= 200 /\ response.status_code < 300

\* check_page_exists, given the outcome of requests.head(url, ...).
check_page_exists(response) ==
    IF response.raised THEN FALSE
    ELSE response.status_code = 200

\* The mutant of get_fallback_url: the next month is tried before the previous.
get_fallback_url_nextfirst(d, head) ==
    LET prev_month_str == MonthStr(prev_period(d).year, prev_period(d).month)
        prev_url == FeatureUrl(prev_month_str)
        next_month_str == MonthStr(next_period(d).year, next_period(d).month)
        next_url == FeatureUrl(next_month_str)
    IN  IF check_page_exists(head[next_url])
        THEN [url |-> next_url, month_str |-> next_month_str,
              prev_month_str |-> prev_month_str, next_month_str |-> next_month_str]
        ELSE IF check_page_exists(head[prev_url])
        THEN [url |-> prev_url, month_str |-> prev_month_str,
              prev_month_str |-> prev_month_str, next_month_str |-> next_month_str]
        ELSE [url |-> GeneralUrl, month_str |-> GeneralNew,
              prev_month_str |-> prev_month_str, next_month_str |-> next_month_str]

\* get_fallback_url, with date.today() = d and head[u] the outcome of the HEAD
\* request to u.  prev_month_str and next_month_str are its locals (next_month_str
\* is <<>> when the function returns before computing it).
get_fallback_url(d, head) ==
    LET prev_month_str == MonthStr(prev_period(d).year, prev_period(d).month)
        prev_url == FeatureUrl(prev_month_str)
        next_month_str == MonthStr(next_period(d).year, next_period(d).month)
        next_url == FeatureUrl(next_month_str)
    IN  IF check_page_exists(head[prev_url])
        THEN [url |-> prev_url, month_str |-> prev_month_str,
              prev_month_str |-> prev_month_str, next_month_str |-> <<>>]
        ELSE IF check_page_exists(head[next_url])
        THEN [url |-> next_url, month_str |-> next_month_str,
              prev_month_str |-> prev_month_str, next_month_str |-> next_month_str]
        ELSE [url |-> GeneralUrl, month_str |-> GeneralNew,
              prev_month_str |-> prev_month_str, next_month_str |-> next_month_str]

\* The resolution step of check_sanx_updates: the current month's target, or
\* the fallback target when the current month's page does not exist.
resolve_target(d, head) ==
    LET cur == get_current_releases_url(d)
        cur_exists == check_page_exists(head[cur.url])
        fb == get_fallback_url(d, head)
    IN  IF cur_exists
        THEN [cur_month_str |-> cur.month_str, cur_exists |-> TRUE,
              fallback |-> FALSE, prev_month_str |-> <<>>, next_month_str |-> <<>>,
              url |-> cur.url, month_str |-> cur.month_str]
        ELSE [cur_month_str |-> cur.month_str, cur_exists |-> FALSE,
              fallback |-> TRUE,
              prev_month_str |-> fb.prev_month_str,
              next_month_str |-> fb.next_month_str,
              url |-> fb.url, month_str |-> fb.month_str]

(* ------------------------- content fingerprinter ----------------------- *)

\* content_selectors of get_page_content, in the order they are tried.
content_selectors ==
    <<".feature-products", ".product-list", ".new-items", ".items-grid",
      ".products", ".main-content", "#main", ".container", "main">>

NoSelector == [s \in {content_selectors[i] : i \in 1..Len(content_selectors)} |-> None]

\* Parsed documents (script and style already removed): select_one[s] is the
\* text of the first element matching selector s, body the text of <body>,
\* None where there is no such element.
Documents ==
    { [select_one |-> NoSelector, body |-> "A"],
      [select_one |-> [NoSelector EXCEPT ![".products"] = "B", !["main"] = "A"],
       body |-> "A"],
      [select_one |-> [NoSelector EXCEPT ![".container"] = "", !["main"] = "A"],
       body |-> "A"],
      [select_one |-> NoSelector, body |-> None] }

NoDocument == [select_one |-> NoSelector, body |-> None]

\* What requests.get gives: an exception, or a response with a status code
\* and a document.
GetResponses ==
    { [raised |-> TRUE, status_code |-> 0, doc |-> NoDocument] }
    \cup { [raised |-> FALSE, status_code |-> 404,
             doc |-> [select_one |-> NoSelector, body |-> "B"]] }
    \cup { [raised |-> FALSE, status_code |-> 200, doc |-> d] : d \in Documents }

\* The mutant of raise_for_status: an HTTP error status is not raised.
raise_for_status_never(status_code) == FALSE

\* response.raise_for_status(): TRUE when it raises HTTPError.
raise_for_status(status_code) == status_code >= 400 /\ status_code < 600

\* The selector loop of get_page_content, from the i-th selector on, then body.
RECURSIVE select_content(_, _)
select_content(doc, i) ==
    IF i > Len(content_selectors) THEN doc.body
    ELSE IF doc.select_one[content_selectors[i]] # None
         THEN doc.select_one[content_selectors[i]]
         ELSE select_content(doc, i + 1)

\* get_page_content, given the outcome of requests.get(url, ...): the text
\* extracted, or None when an exception was raised on the way.
get_page_content(response) ==
    IF response.raised \/ raise_for_status(response.status_code) THEN None
    ELSE LET content == select_content(response.doc, 1)
         IN  IF content # None THEN content ELSE ""

\* hashlib.md5(text.encode('utf-8')).hexdigest() on the texts of the model.
md5hex(text) ==
    CASE text = ""  -> "d41d8cd98f00b204e9800998ecf8427e"
      [] text = "A" -> "7fc56270e7a70fa81a5935b72eacbe29"
      [] text = "B" -> "9d5ed678fe57bcca610140957afab571"

(* ------------------------------ state store ---------------------------- *)

\* sanx_hash.json: missing, not readable as a JSON object, or a saved record.
Absent == [kind |-> "absent"]
Corrupt == [kind |-> "corrupt"]

\* load_previous_hash: the four fields of the record, four times None when
\* the file is missing or cannot be read as a record.
load_previous_hash(f) ==
    IF f.kind = "json"
    THEN [hash |-> f.hash, last_check |-> f.last_check,
          url |-> f.url, month_str |-> f.month_str]
    ELSE [hash |-> None, last_check |-> None, url |-> None, month_str |-> None]

\* save_current_hash: the record written to sanx_hash.json.
save_current_hash(content_hash, url, month_str, now) ==
    [kind |-> "json", hash |-> content_hash, url |-> url,
     month_str |-> month_str, last_check |-> now]

(* ----------------------------- notification ---------------------------- *)

\* The functions the module defines (its def statements).
ModuleNames ==
    { "get_current_releases_url", "check_page_exists", "get_fallback_url",
      "get_page_content", "load_previous_hash", "save_current_hash",
      "check_sanx_updates" }

\* month_str.split('_')[0]
RECURSIVE split_first(_)
split_first(s) ==
    IF s = <<>> \/ Head(s) = "_" THEN <<>>
    ELSE <<Head(s)>> \o split_first(Tail(s))

\* datetime.strptime(s, '%Y%m'): four digits of year, then a month 1..12 of
\* one or two digits and nothing after it; ok is FALSE for ValueError.
strptime_Ym(s) ==
    IF Len(s) < 5 \/ Len(s) > 6 \/ \E i \in 1..Len(s) : ~IsDigit(s[i])
    THEN [ok |-> FALSE, year |-> 0, month |-> 0]
    ELSE LET m == IntOf(SubSeq(s, 5, Len(s)))
         IN  IF m >= 1 /\ m <= 12
             THEN [ok |-> TRUE, year |-> IntOf(SubSeq(s, 1, 4)), month |-> m]
             ELSE [ok |-> FALSE, year |-> 0, month |-> 0]

\* The notification step of check_sanx_updates: month_name is computed, then
\* send_email is looked up and called.
notify(month_str) ==
    IF ~strptime_Ym(split_first(month_str)).ok
    THEN [raised |-> "ValueError", sent |-> FALSE]
    ELSE IF "send_email" \notin ModuleNames
    THEN [raised |-> "NameError", sent |-> FALSE]
    ELSE [raised |-> "none", sent |-> TRUE]

(* ---------------------------- change detector -------------------------- *)

\* The mutant of fetch_failed: only None counts as a failed fetch.
fetch_failed_is_none(current_content) == current_content = None

\* `not current_content`: None and the empty string both end the run.
fetch_failed(current_content) == current_content = None \/ current_content = ""

\* No run has completed since the environment last changed.
NoRun ==
    [outcome |-> "none", at |-> 0, url |-> <<>>, month_str |-> <<>>,
     get_error |-> FALSE, content |-> None, current_hash |-> None,
     loaded |-> FALSE, notified |-> FALSE, raised |-> "none", saved |-> FALSE]

\* One invocation of check_sanx_updates on date d at clock reading now, with
\* head[u] the outcome of a HEAD request to u, get the outcome of the GET
\* request to the resolved URL and f the content of sanx_hash.json.  Gives the
\* file after the run and the run's record: the branch taken, the values of
\* the locals, whether a notification was sent and the exception that ended
\* the run ("none" when it returned).
check_sanx_updates(d, head, get, now, f) ==
    LET target == resolve_target(d, head)
        url == target.url
        month_str == target.month_str
        current_content == get_page_content(get)
        get_error == get.raised \/ (get.status_code >= 400 /\ get.status_code < 600)
        base == [NoRun EXCEPT !.at = now, !.url = url, !.month_str = month_str,
                              !.get_error = get_error, !.content = current_content]
    IN  IF fetch_failed(current_content)
        THEN [file |-> f, last |-> [base EXCEPT !.outcome = "FETCH_FAILED"]]
        ELSE
        LET current_hash == md5hex(current_content)
            previous == load_previous_hash(f)
            outcome == IF previous.hash = None \/ previous.hash = "" THEN "FIRST_RUN"
                       ELSE IF url # previous.url THEN "PERIOD_ROLLOVER"
                       ELSE IF current_hash # previous.hash THEN "CONTENT_CHANGED"
                       ELSE "NO_CHANGE"
            should_notify == outcome \in {"PERIOD_ROLLOVER", "CONTENT_CHANGED"}
            sent == IF should_notify THEN notify(month_str)
                    ELSE [raised |-> "none", sent |-> FALSE]
            run == [base EXCEPT !.outcome = outcome, !.current_hash = current_hash,
                                !.loaded = TRUE, !.notified = sent.sent,
                                !.raised = sent.raised]
        IN  IF sent.raised # "none"
            THEN [file |-> f, last |-> run]
            ELSE [file |-> save_current_hash(current_hash, url, month_str, now),
                  last |-> [run EXCEPT !.saved = TRUE]]

(* ------------------------------ the system ----------------------------- *)

\* Number of months the calendar moves on from the first run's month.
MaxTicks == 2

\* The month of the first run.
StartDate == [year |-> 2024, month |-> 11]

MonthsSinceStart(d) == (d.year - StartDate.year) * 12 + d.month - StartDate.month

NoProbe == [kind |-> "none"]

Init ==
    /\ today = StartDate
    /\ file = Absent
    /\ last = NoRun
    /\ probe = NoProbe

\* The scheduler invokes the script once.  Each HEAD request is answered 200 or
\* 404 (an exception is judged like 404 by check_page_exists and is covered by
\* Resolve below); now stands for the readings of datetime.now() in the run.
Run ==
    \E head \in [Candidates(today) -> {HeadStatus(200), HeadStatus(404)}],
       get \in GetResponses, now \in Times :
        LET r == check_sanx_updates(today, head, get, now, file)
        IN  /\ file' = r.file
            /\ last' = r.last
            /\ UNCHANGED <<today, probe>>

\* The calendar moves on to the next month.
Tick ==
    /\ MonthsSinceStart(today) < MaxTicks
    /\ today' = next_period(today)
    /\ last' = NoRun
    /\ UNCHANGED <<file, probe>>

\* sanx_hash.json is damaged between runs (truncated or overwritten).
Damage ==
    /\ file.kind = "json"
    /\ file' = Corrupt
    /\ last' = NoRun
    /\ UNCHANGED <<today, probe>>

Next == Run \/ Tick \/ Damage

Spec == Init /\ [][Next]_vars

(* ------------------ the resolver and the existence check --------------- *)

\* The status codes a HEAD request is answered with.
StatusCodes == 100 .. 599

InitProbe ==
    /\ today \in Dates
    /\ file = Absent
    /\ last = NoRun
    /\ probe = NoProbe

\* check_page_exists is applied to one outcome of requests.head.
HeadCheck ==
    /\ probe = NoProbe
    /\ \E response \in {HeadRaised} \cup {HeadStatus(c) : c \in StatusCodes} :
        probe' = [kind |-> "head", response |-> response,
                  exists |-> check_page_exists(response)]
    /\ UNCHANGED <<today, file, last>>

\* The resolution step of check_sanx_updates is applied on date today.
Resolve ==
    /\ probe = NoProbe
    /\ \E head \in [Candidates(today) -> {HeadStatus(200), HeadStatus(404), HeadRaised}] :
        probe' = [kind |-> "resolve", head |-> head,
                  target |-> resolve_target(today, head)]
    /\ UNCHANGED <<today, file, last>>

NextProbe == HeadCheck \/ Resolve

SpecProbe == InitProbe /\ [][NextProbe]_vars

(* -------------------------------- claims ------------------------------ *)

\* The run recorded in last got past the check of the fetched content.
Fetched(run) == run.outcome \in {"FIRST_RUN", "PERIOD_ROLLOVER", "CONTENT_CHANGED", "NO_CHANGE"}

\* C1: after every run whose content fetch succeeds, sanx_hash.json holds the
\* fingerprint of the content fetched in that run with the URL and the period
\* label resolved in that run.
C1_StateReflectsRun ==
    Fetched(last) =>
        /\ file.kind = "json"
        /\ file.hash = md5hex(last.content)
        /\ file.url = last.url
        /\ file.month_str = last.month_str

\* C2: a run sends a notification if and only if the fetch succeeded, a prior
\* record exists and either the resolved URL differs from the recorded URL or
\* the URL is the same and the fingerprint differs from the recorded one.
C2_NotifyIff ==
    [][ last'.outcome # "none" =>
          ( last'.notified <=>
              /\ Fetched(last')
              /\ file.kind = "json"
              /\ \/ last'.url # file.url
                 \/ md5hex(last'.content) # file.hash ) ]_vars

\* C3: a run whose GET request raises or is answered with an HTTP error status
\* ends as FETCH_FAILED, sends no notification and leaves sanx_hash.json as it
\* was before the run.
C3_FetchFailureKeepsState ==
    [][ (last'.outcome # "none" /\ last'.get_error) =>
          /\ last'.outcome = "FETCH_FAILED"
          /\ ~last'.notified
          /\ ~last'.saved
          /\ file' = file ]_vars

\* A run failed on an HTTP error or exception while a record was stored.
C3_Witness ==
    /\ last.outcome = "FETCH_FAILED"
    /\ last.get_error
    /\ file.kind = "json"

\* C4: every invocation of check_sanx_updates completes normally: no exception
\* escapes the run.
C4_RunCompletes == last.raised = "none"

\* C5: after a failed fetch at the recorded URL, the next run that fetches
\* content at that URL whose fingerprint differs from the recorded one is
\* classified CONTENT_CHANGED and sends a notification.
C5_PendingChangeNotified ==
    [][ ( /\ last.outcome = "FETCH_FAILED"
          /\ file.kind = "json"
          /\ last.url = file.url
          /\ Fetched(last')
          /\ last'.url = file.url
          /\ md5hex(last'.content) # file.hash ) =>
          ( last'.outcome = "CONTENT_CHANGED" /\ last'.notified ) ]_vars

\* C6: when two consecutive runs resolve the same URL and fetch the same
\* content, the second is classified NO_CHANGE, sends no notification and
\* rewrites a record with the fingerprint, URL and period label already stored.
C6_SecondRunNoChange ==
    [][ ( /\ Fetched(last)
          /\ Fetched(last')
          /\ last'.url = last.url
          /\ last'.content = last.content ) =>
          ( /\ last'.outcome = "NO_CHANGE"
            /\ ~last'.notified
            /\ last'.saved
            /\ file.kind = "json"
            /\ file'.hash = file.hash
            /\ file'.url = file.url
            /\ file'.month_str = file.month_str ) ]_vars

\* The existence check's answer for the HEAD request to u that Resolve recorded.
Exists(u) == check_page_exists(probe.head[u])

PrevUrl == FeatureUrl(MonthStr(prev_period(today).year, prev_period(today).month))
NextUrl == FeatureUrl(MonthStr(next_period(today).year, next_period(today).month))
CurUrl == get_current_releases_url(today).url

\* C7: the fallback is consulted only when the current month's page does not
\* exist; it gives the previous month's target whenever that page exists, the
\* next month's target only when the previous page does not exist and the next
\* one does, and the generic target if and only if neither exists.
C7_FallbackOrder ==
    probe.kind = "resolve" =>
        /\ probe.target.fallback => ~Exists(CurUrl)
        /\ ~probe.target.fallback => probe.target.url = CurUrl
        /\ probe.target.fallback =>
            /\ Exists(PrevUrl) => probe.target.url = PrevUrl
            /\ probe.target.url = NextUrl <=> (~Exists(PrevUrl) /\ Exists(NextUrl))
            /\ probe.target.url = GeneralUrl <=> (~Exists(PrevUrl) /\ ~Exists(NextUrl))
            /\ probe.target.month_str = GeneralNew <=> probe.target.url = GeneralUrl

\* The fallback was consulted while both neighbouring pages existed.
C7_Witness ==
    /\ probe.kind = "resolve"
    /\ probe.target.fallback
    /\ Exists(PrevUrl)
    /\ Exists(NextUrl)
    /\ probe.target.url = PrevUrl

\* C8 as stated: the existence check is true for every 2xx status and false
\* for every other status and for every exception.
C8_TrueForEvery2xx ==
    probe.kind = "head" =>
        ( probe.exists <=>
            /\ ~probe.response.raised
            /\ probe.response.status_code \in 200..299 )

\* C8 amended: the existence check is true for status 200 alone, false for
\* every other status (the other 2xx included) and for every exception.
C8_TrueFor200Only ==
    probe.kind = "head" =>
        ( probe.exists <=>
            /\ ~probe.response.raised
            /\ probe.response.status_code = 200 )

\* A HEAD request answered 204 was judged not to exist.
C8_Witness ==
    /\ probe.kind = "head"
    /\ ~probe.response.raised
    /\ probe.response.status_code = 204
    /\ ~probe.exists

\* The two digits of a month, as written in a period label.
TwoDigits ==
    << <<"0", "1">>, <<"0", "2">>, <<"0", "3">>, <<"0", "4">>, <<"0", "5">>, <<"0", "6">>,
       <<"0", "7">>, <<"0", "8">>, <<"0", "9">>, <<"1", "0">>, <<"1", "1">>, <<"1", "2">> >>

\* YYYY, the two digits of the month, _new.
Label(year, month) ==
    << Digit[(year \div 1000) + 1], Digit[((year \div 100) % 10) + 1],
       Digit[((year \div 10) % 10) + 1], Digit[(year % 10) + 1] >>
    \o TwoDigits[month] \o <<"_", "n", "e", "w">>

\* C9: the period labels the resolver computes are YYYY, a zero-padded two-digit
\* month and _new; the previous period of January is December of the year
\* before, the next period of December is January of the year after, and in
\* every other month previous and next are one month away in the same year.
C9_PeriodLabels ==
    probe.kind = "resolve" =>
        /\ probe.target.cur_month_str = Label(today.year, today.month)
        /\ probe.target.fallback =>
            probe.target.prev_month_str =
                IF today.month = 1 THEN Label(today.year - 1, 12)
                ELSE Label(today.year, today.month - 1)
        /\ probe.target.next_month_str # <<>> =>
            probe.target.next_month_str =
                IF today.month = 12 THEN Label(today.year + 1, 1)
                ELSE Label(today.year, today.month + 1)

\* In January 2025 the fallback computed 202412_new and 202502_new.
C9_Witness ==
    /\ probe.kind = "resolve"
    /\ today = [year |-> 2025, month |-> 1]
    /\ probe.target.cur_month_str = <<"2", "0", "2", "5", "0", "1", "_", "n", "e", "w">>
    /\ probe.target.prev_month_str = <<"2", "0", "2", "4", "1", "2", "_", "n", "e", "w">>
    /\ probe.target.next_month_str = <<"2", "0", "2", "5", "0", "2", "_", "n", "e", "w">>

\* C10: a run that fetches a page whose extracted text is empty ends like a
\* failed fetch: it returns before loading the record, sends no notification
\* and leaves sanx_hash.json unchanged.
C10_EmptyTextIsFailure ==
    [][ (last'.outcome # "none" /\ last'.content = "") =>
          /\ last'.outcome = "FETCH_FAILED"
          /\ ~last'.loaded
          /\ ~last'.notified
          /\ ~last'.saved
          /\ file' = file ]_vars

\* A page answered 200 with empty text while the record held the fingerprint
\* of non-empty text for the same URL.
C10_Witness ==
    /\ last.outcome = "FETCH_FAILED"
    /\ ~last.get_error
    /\ last.content = ""
    /\ file.kind = "json"
    /\ file.url = last.url
    /\ file.hash = md5hex("A")

====
